---- MODULE Spec2Model ----
(***************************************************************************)
(* The AI service of ai-service/main.py: a FastAPI application with three  *)
(* GET operations (/, /health, /metrics) and three POST operations         *)
(* (/ai/trend-prediction, /ai/sentiment-analysis, /ai/sales-forecast).     *)
(*                                                                         *)
(* The application keeps no state of its own.  What changes is the world   *)
(* around it: the wall clock the handlers read, the line the logger last   *)
(* wrote, and the response each client last received.                      *)
(*                                                                         *)
(* Numbers: the source's fractions are kept in hundredths (0.85 is 85,     *)
(* 1.1 is 110); predicted_sales and confidence_interval are whole numbers  *)
(* in the source and kept as they are.                                     *)
(***************************************************************************)
EXTENDS Integers, Sequences, FiniteSets

VARIABLES
    now,        \* the wall clock datetime.utcnow() reads
    response,   \* client -> the exchange that client completed last
    log_line    \* the last line written by logger.error ("" before any)

vars == <<now, response, log_line>>

(***************************************************************************)
(* Bounds                                                                  *)
(***************************************************************************)
MaxClock == 1       \* the clock runs from 0 to MaxClock
MaxSeries == 1      \* the longest series or review list a request carries

(***************************************************************************)
(* Inputs                                                                  *)
(***************************************************************************)
Clients == {"c1", "c2"}

\* the product identifier the tests send
Asins == {"B08N5WRWNW"}

\* a series (historical_data, reviews, historical_sales) of 0..MaxSeries items
SeriesOf(n) == [i \in 1..n |-> 100 + 10 * i]
SeriesValues == {SeriesOf(n) : n \in 0..MaxSeries}

\* a JSON request body: absent (GET), a JSON array, or a JSON object
\* (with no fields at all, or with an identifier and a series)
NoBody == [type |-> "none", asin |-> "", series |-> <<>>]
ArrayBody == [type |-> "array", asin |-> "", series |-> <<>>]
EmptyObject == [type |-> "object", asin |-> "", series |-> <<>>]
ObjectBodies ==
    {EmptyObject} \cup [type : {"object"}, asin : Asins, series : SeriesValues]
PostBodies == {ArrayBody} \cup ObjectBodies

\* the failure raised while a handler builds its response, "" for none
NoException == ""
Exceptions == {"MemoryError: out of memory"}

AnalyticalOps == {"trend-prediction", "sentiment-analysis", "sales-forecast"}
PlumbingOps == {"root", "health", "metrics"}

(***************************************************************************)
(* Reading a JSON object                                                   *)
(***************************************************************************)
Has(json, key) == key \in DOMAIN json
Field(json, key) == IF Has(json, key) THEN json[key] ELSE "<absent>"

(***************************************************************************)
(* The framework's part: body parsing and error responses                  *)
(***************************************************************************)
\* `data: dict`: the body must be a JSON object, whatever its fields
\* IsDict, were the body also required to carry a non-empty series
IsDictWithSeries(body) == body.type = "object" /\ body.series # <<>>

IsDict(body) == body.type = "object"

\* FastAPI's answer to a body that is no dict; the handler is not called
RequestValidationError ==
    [status_code |-> 422, json |-> [detail |-> "Input should be a valid dictionary"]]

\* raise HTTPException(status_code, detail)
HTTPException(status_code, detail) ==
    [status_code |-> status_code, json |-> [detail |-> detail]]

\* an exception no handler caught: the server's plain 500
ServerError ==
    [status_code |-> 500, json |-> [text |-> "Internal Server Error"]]

OK(json) == [status_code |-> 200, json |-> json]

(***************************************************************************)
(* The bodies the handlers return                                          *)
(***************************************************************************)
RootBody(t) ==
    [message |-> "Amazon Dropshipping AI Service",
     version |-> "1.0.0",
     status |-> "running",
     timestamp |-> t]

\* HealthBody, were the service to report itself degraded once time has passed
HealthBodyDegraded(t) ==
    [status |-> IF t = 0 THEN "healthy" ELSE "degraded",
     timestamp |-> t,
     service |-> "ai-service",
     version |-> "1.0.0"]

HealthBody(t) ==
    [status |-> "healthy",
     timestamp |-> t,
     service |-> "ai-service",
     version |-> "1.0.0"]

\* MetricsBody, were requests_total to follow the clock
MetricsBodyCounting(t) ==
    [uptime |-> "healthy",
     requests_total |-> t,
     timestamp |-> t]

MetricsBody(t) ==
    [uptime |-> "healthy",
     requests_total |-> 0,
     timestamp |-> t]

\* TrendBody, were the confidence to drift with the time of the call
TrendBodyDrifting(data, t) ==
    [status |-> "success",
     prediction |-> [trend |-> "upward",
                     confidence |-> 85 - t,
                     forecast |-> <<100, 110, 120, 130, 140>>],
     timestamp |-> t]

TrendBody(data, t) ==
    [status |-> "success",
     prediction |-> [trend |-> "upward",
                     confidence |-> 85,
                     forecast |-> <<100, 110, 120, 130, 140>>],
     timestamp |-> t]

\* SentimentBody, were the score to be neutral for an empty review list
SentimentBodyFromReviews(data, t) ==
    [status |-> "success",
     sentiment |-> [overall |-> IF data.series = <<>> THEN "neutral" ELSE "positive",
                    score |-> IF data.series = <<>> THEN 50 ELSE 75,
                    confidence |-> 90],
     timestamp |-> t]

\* SentimentBody, were it built from a copy of the forecast handler's body
SentimentBodyMiskeyed(data, t) ==
    [status |-> "success",
     forecast |-> [overall |-> "positive",
                   score |-> 75,
                   confidence |-> 90],
     timestamp |-> t]

SentimentBody(data, t) ==
    [status |-> "success",
     sentiment |-> [overall |-> "positive",
                    score |-> 75,
                    confidence |-> 90],
     timestamp |-> t]

\* ForecastBody, were it to carry a confidence derived from the series size
ForecastBodySized(data, t) ==
    [status |-> "success",
     forecast |-> [period |-> "30_days",
                   predicted_sales |-> 1000,
                   confidence_interval |-> <<800, 1200>>,
                   confidence |-> 50 + 10 * Len(data.series)],
     timestamp |-> t]

ForecastBody(data, t) ==
    [status |-> "success",
     forecast |-> [period |-> "30_days",
                   predicted_sales |-> 1000,
                   confidence_interval |-> <<800, 1200>>],
     timestamp |-> t]

\* logger.error(f"<prefix>: {str(e)}")
LogLine(prefix, exc) == [prefix |-> prefix, detail |-> exc]
NoLogLine == [prefix |-> "", detail |-> ""]

(***************************************************************************)
(* Exchanges: a request, what happened to it, and its response             *)
(***************************************************************************)
\* op, auth (valid bearer credentials sent), body: the request;
\* called: the handler ran; raised: what its try block raised;
\* at: the clock when it was handled; status_code, json: the response
Exchange(op, auth, body, called, raised, resp) ==
    [op |-> op, auth |-> auth, body |-> body,
     called |-> called, raised |-> raised, at |-> now,
     status_code |-> resp.status_code, json |-> resp.json]

NoExchange ==
    [op |-> "none", auth |-> FALSE, body |-> NoBody,
     called |-> FALSE, raised |-> NoException, at |-> 0,
     status_code |-> 0, json |-> [none |-> TRUE]]

Deliver(c, x) == response' = [response EXCEPT ![c] = x]

(***************************************************************************)
(* Operations                                                              *)
(***************************************************************************)
Init ==
    /\ now = 0
    /\ response = [c \in Clients |-> NoExchange]
    /\ log_line = NoLogLine

\* time passes
Tick ==
    /\ now < MaxClock
    /\ now' = now + 1
    /\ UNCHANGED <<response, log_line>>

\* a handler with no try block: a failure goes to the server uncaught
Uncaught(c, op, exc, result) ==
    /\ Deliver(c, Exchange(op, FALSE, NoBody, TRUE, exc,
                           IF exc = NoException THEN OK(result) ELSE ServerError))
    /\ UNCHANGED <<now, log_line>>

\* try: return result / except Exception as e: log it, raise HTTPException
\* TryExcept, were the except clause to pass str(e) on as the detail
TryExceptLeaking(c, op, auth, body, exc, result, prefix, status_code, detail) ==
    /\ Deliver(c, Exchange(op, auth, body, TRUE, exc,
                           IF exc = NoException THEN OK(result)
                           ELSE HTTPException(status_code, exc)))
    /\ log_line' = IF exc = NoException THEN log_line ELSE LogLine(prefix, exc)
    /\ UNCHANGED now

TryExcept(c, op, auth, body, exc, result, prefix, status_code, detail) ==
    /\ Deliver(c, Exchange(op, auth, body, TRUE, exc,
                           IF exc = NoException THEN OK(result)
                           ELSE HTTPException(status_code, detail)))
    /\ log_line' = IF exc = NoException THEN log_line ELSE LogLine(prefix, exc)
    /\ UNCHANGED now

\* a POST handler: the framework parses the body into `data: dict` and
\* answers 422 itself when it cannot; otherwise the handler's try block runs
Post(c, op, auth, body, exc, result, prefix, detail) ==
    IF IsDict(body)
    THEN TryExcept(c, op, auth, body, exc, result, prefix, 500, detail)
    ELSE /\ Deliver(c, Exchange(op, auth, body, FALSE, NoException,
                                RequestValidationError))
         /\ UNCHANGED <<now, log_line>>

\* GET /
root(c, exc) ==
    Uncaught(c, "root", exc, RootBody(now))

\* GET /health
health_check(c, exc) ==
    TryExcept(c, "health", FALSE, NoBody, exc, HealthBody(now),
              "Health check failed", 503, "Service unhealthy")

\* GET /metrics
metrics(c, exc) ==
    Uncaught(c, "metrics", exc, MetricsBody(now))

\* POST /ai/trend-prediction
predict_trend(c, auth, data, exc) ==
    Post(c, "trend-prediction", auth, data, exc, TrendBody(data, now),
         "Trend prediction failed", "Prediction failed")

\* POST /ai/sentiment-analysis
analyze_sentiment(c, auth, data, exc) ==
    Post(c, "sentiment-analysis", auth, data, exc, SentimentBody(data, now),
         "Sentiment analysis failed", "Analysis failed")

\* POST /ai/sales-forecast
forecast_sales(c, auth, data, exc) ==
    Post(c, "sales-forecast", auth, data, exc, ForecastBody(data, now),
         "Sales forecast failed", "Forecast failed")

\* the service as it runs: building a response never fails
Next ==
    \/ Tick
    \/ \E c \in Clients : root(c, NoException)
    \/ \E c \in Clients : health_check(c, NoException)
    \/ \E c \in Clients : metrics(c, NoException)
    \/ \E c \in Clients, auth \in BOOLEAN, data \in PostBodies :
           predict_trend(c, auth, data, NoException)
    \/ \E c \in Clients, auth \in BOOLEAN, data \in PostBodies :
           analyze_sentiment(c, auth, data, NoException)
    \/ \E c \in Clients, auth \in BOOLEAN, data \in PostBodies :
           forecast_sales(c, auth, data, NoException)

Spec == Init /\ [][Next]_vars

\* the service with failures injected: building a response may raise
MaybeException == {NoException} \cup Exceptions

NextFault ==
    \/ Tick
    \/ \E c \in Clients, exc \in MaybeException : root(c, exc)
    \/ \E c \in Clients, exc \in MaybeException : health_check(c, exc)
    \/ \E c \in Clients, exc \in MaybeException : metrics(c, exc)
    \/ \E c \in Clients, auth \in BOOLEAN, data \in PostBodies, exc \in MaybeException :
           predict_trend(c, auth, data, exc)
    \/ \E c \in Clients, auth \in BOOLEAN, data \in PostBodies, exc \in MaybeException :
           analyze_sentiment(c, auth, data, exc)
    \/ \E c \in Clients, auth \in BOOLEAN, data \in PostBodies, exc \in MaybeException :
           forecast_sales(c, auth, data, exc)

SpecFault == Init /\ [][NextFault]_vars

(***************************************************************************)
(* What the claims speak of                                                *)
(***************************************************************************)
\* the exchanges some client holds
Held == {response[c] : c \in Clients} \ {NoExchange}
Analytical == {x \in Held : x.op \in AnalyticalOps}

\* the request body is a JSON object, whatever is in it
IsJsonObject(body) == body.type = "object"

\* a response body without its timestamp
WithoutTimestamp(json) == [k \in DOMAIN json \ {"timestamp"} |-> json[k]]

\* the request kind an operation serves, and the key its result is under
KindOf(op) ==
    CASE op = "trend-prediction" -> "Trend"
      [] op = "sentiment-analysis" -> "Sentiment"
      [] op = "sales-forecast" -> "Forecast"
ResultKey(op) ==
    CASE op = "trend-prediction" -> "prediction"
      [] op = "sentiment-analysis" -> "sentiment"
      [] op = "sales-forecast" -> "forecast"
ResultKeys == {ResultKey(op) : op \in AnalyticalOps}

\* the public message of a failed operation
PublicMessage(op) ==
    CASE op = "trend-prediction" -> "Prediction failed"
      [] op = "sentiment-analysis" -> "Analysis failed"
      [] op = "sales-forecast" -> "Forecast failed"

\* a payload whose shape is wrong for its kind: no object, or no series in it
Malformed(x) == ~IsJsonObject(x.body) \/ x.body.series = <<>>

Succeeded(x) == x.status_code = 200 /\ Field(x.json, "status") = "success"

(***************************************************************************)
(* C1: every analytical request with a malformed payload (no JSON object,  *)
(* or an empty series or review list) gets a validation error and its      *)
(* handler is never run; none gets a Success result.                       *)
(***************************************************************************)
C1_MalformedRejected ==
    \A x \in Analytical :
        Malformed(x) => /\ x.status_code \in {400, 422}
                        /\ ~x.called
                        /\ ~Succeeded(x)

C3_UnauthenticatedRejected ==
    \A x \in Analytical :
        ~x.auth => x.status_code \in {401, 422} /\ ~x.called /\ ~Succeeded(x)

(***************************************************************************)
(* C4: every POST to an analytical operation with a JSON-object body is    *)
(* answered 200 with status "success", a timestamp and the operation's own *)
(* result key.                                                             *)
(***************************************************************************)
C4_ObjectBodySucceeds ==
    \A x \in Analytical :
        IsJsonObject(x.body) =>
            /\ x.status_code = 200
            /\ Field(x.json, "status") = "success"
            /\ Has(x.json, "timestamp")
            /\ Has(x.json, ResultKey(x.op))

\* each operation has answered an object body; one of them had no fields,
\* one an empty series
C4_Witness ==
    /\ response["c1"].op = "trend-prediction"
    /\ response["c1"].body = EmptyObject
    /\ response["c1"].status_code = 200
    /\ response["c2"].op = "sentiment-analysis"
    /\ response["c2"].body.asin # "" /\ response["c2"].body.series = <<>>
    /\ response["c2"].status_code = 200

(***************************************************************************)
(* C5: two calls of one analytical operation with the same input get the   *)
(* same status and the same body (confidence included); they may differ    *)
(* in the timestamp only.                                                  *)
(***************************************************************************)
SameInput(x, y) == x.op = y.op /\ x.auth = y.auth /\ x.body = y.body

C5_SameInputSameResult ==
    \A x, y \in Analytical :
        SameInput(x, y) =>
            /\ x.status_code = y.status_code
            /\ WithoutTimestamp(x.json) = WithoutTimestamp(y.json)

\* the same input was answered at two different times
C5_Witness ==
    \E x, y \in Analytical :
        /\ SameInput(x, y) /\ IsJsonObject(x.body)
        /\ x.at < y.at
        /\ x.json.timestamp # y.json.timestamp

(***************************************************************************)
(* C6 as stated: every successful result carries a confidence in [0,1]:    *)
(* 0.85 with trend "upward" for Trend, 0.9 for Sentiment, and one for      *)
(* Forecast too.                                                           *)
(***************************************************************************)
HasConfidence(x) == Has(x.json[ResultKey(x.op)], "confidence")
Confidence(x) == x.json[ResultKey(x.op)].confidence

C7_FailureConverted ==
    \A x \in Analytical :
        /\ x.raised # NoException =>
               /\ x.status_code = 500
               /\ x.json = [detail |-> PublicMessage(x.op)]
               /\ \A k \in DOMAIN x.json : x.json[k] # x.raised
        /\ \/ Succeeded(x) /\ x.raised = NoException
           \/ x.status_code = 422 /\ ~x.called
           \/ x.status_code = 500 /\ x.json = [detail |-> PublicMessage(x.op)]

\* a forecast failed, and the logger has the failure's text
C7_Witness ==
    \E x \in Analytical :
        /\ x.op = "sales-forecast"
        /\ x.raised \in Exceptions
        /\ x.status_code = 500
        /\ log_line = [prefix |-> "Sales forecast failed", detail |-> x.raised]

(***************************************************************************)
(* C8: whatever was requested before, GET /health is answered 200 with     *)
(* status "healthy", service "ai-service" and version "1.0.0", GET / is    *)
(* answered 200 with status "running", GET /metrics is answered 200 with   *)
(* uptime, requests_total and timestamp; no response is a 503.             *)
(***************************************************************************)
C8_PlumbingAvailable ==
    \A x \in Held :
        /\ x.status_code # 503
        /\ x.op = "health" =>
               /\ x.status_code = 200
               /\ Field(x.json, "status") = "healthy"
               /\ Field(x.json, "service") = "ai-service"
               /\ Field(x.json, "version") = "1.0.0"
        /\ x.op = "root" =>
               x.status_code = 200 /\ Field(x.json, "status") = "running"
        /\ x.op = "metrics" =>
               /\ x.status_code = 200
               /\ {"uptime", "requests_total", "timestamp"} \subseteq DOMAIN x.json

\* a health check answered after an analytical request had been refused
C8_Witness ==
    \E x, y \in Held :
        /\ x.op \in AnalyticalOps /\ x.status_code = 422
        /\ y.op = "health" /\ y.status_code = 200
        /\ x.at < y.at

(***************************************************************************)
(* C9: two JSON-object bodies sent to the same analytical operation get    *)
(* responses that are equal in everything but the timestamp.               *)
(***************************************************************************)
C9_PayloadIgnored ==
    \A x, y \in Analytical :
        (x.op = y.op /\ IsJsonObject(x.body) /\ IsJsonObject(y.body)) =>
            /\ x.status_code = y.status_code
            /\ WithoutTimestamp(x.json) = WithoutTimestamp(y.json)

\* one operation answered two bodies that differ in identifier and series
C9_Witness ==
    \E x, y \in Analytical :
        /\ x.op = y.op /\ IsJsonObject(x.body) /\ IsJsonObject(y.body)
        /\ x.body.asin # y.body.asin
        /\ x.body.series # y.body.series

(***************************************************************************)
(* C10: every GET /metrics reports requests_total 0 and uptime "healthy",  *)
(* however many requests came before, and no handler has written to state  *)
(* that outlives its request: the logger has written nothing.              *)
(***************************************************************************)
C10_MetricsNeverAdvance ==
    /\ \A x \in Held :
           x.op = "metrics" =>
               /\ Has(x.json, "requests_total")
               /\ x.json.requests_total = 0
               /\ Field(x.json, "uptime") = "healthy"
    /\ log_line = NoLogLine

\* metrics read after an analytical request had succeeded
C10_Witness ==
    \E x, y \in Held :
        /\ x.op \in AnalyticalOps /\ Succeeded(x)
        /\ y.op = "metrics" /\ y.status_code = 200
        /\ x.at < y.at

====
